---- MODULE Spec2Model ----
(***************************************************************************)
(* The tach pytest plugin (python/tach/pytest_plugin.py): impact-based     *)
(* test selection wired into pytest's hook sequence                        *)
(*   configure -> [collect-file]* -> modify-items -> report -> run ->      *)
(*   terminal-summary                                                      *)
(* together with the duration ledger kept in pytest's cache.               *)
(*                                                                         *)
(* Representation.  An optional value (Python's None or a value) is a      *)
(* sequence of length at most one.  A node id "file::name" is the tuple of *)
(* its "::"-separated parts.  A git ref is the tuple of its "/"-separated  *)
(* parts.  Durations are whole numbers of a fixed time unit.               *)
(***************************************************************************)
EXTENDS Integers, Sequences, FiniteSets, TLC

None == <<>>
Some(x) == <<x>>

(***************************************************************************)
(* Bounds of the model.                                                    *)
(***************************************************************************)
\* Durations in the ledger and in test reports range over 0..MaxDuration.
MaxDuration == 1
\* At most MaxFailures executed tests of one run do not pass.
MaxFailures == 2

(***************************************************************************)
(* Paths.  link_a_test.py is a symbolic link to a_test.py, so the two      *)
(* spellings resolve to the same file.                                     *)
(***************************************************************************)
Paths == {"a_test.py", "b_test.py", "link_a_test.py"}

\* Path.resolve()
Resolve(p) == IF p = "link_a_test.py" THEN "a_test.py" ELSE p

\* Directory order in which the runner visits the files, and in which a set
\* of paths is listed; the last four are met only in reports.
PathOrder ==
    <<"a_test.py", "b_test.py", "link_a_test.py",
      "c_test.py", "d_test.py", "e_test.py", "f_test.py">>

PathIndex(p) == CHOOSE i \in 1..Len(PathOrder) : PathOrder[i] = p

\* The tests defined in a file, by name: every file defines one test.
TestsOf(p) == <<1>>

\* The items the runner generates from the collector of file p.
GenItems(p) == [k \in 1..Len(TestsOf(p)) |-> [path |-> p, name |-> TestsOf(p)[k]]]

\* item.nodeid: "<path>::<name>"
NodeId(item) == <<item.path, item.name>>

(***************************************************************************)
(* _get_default_branch.  git holds the outcome of each git invocation:     *)
(* raised (the subprocess call threw), returncode, and for symbolic-ref    *)
(* the stdout split at "/".                                                *)
(***************************************************************************)
Last(s) == s[Len(s)]

Range(seq) == {seq[i] : i \in 1..Len(seq)}

RunOk(r) == ~r.raised /\ r.returncode = 0

\* Mutant: master is tried before main.
PreferredBranchesMasterFirst == <<"master", "main">>

\* for branch in ["main", "master"]
PreferredBranches == <<"main", "master">>

GetDefaultBranch(git) ==
    IF RunOk(git.symref)
    THEN Last(git.symref.stdout)
    ELSE LET existing_branches ==
                 SelectSeq(PreferredBranches, LAMBDA b : RunOk(git.verify[b]))
         IN  IF existing_branches # <<>> THEN existing_branches[1] ELSE "main"

(***************************************************************************)
(* The duration ledger.  cache = [available, slot]: available is whether   *)
(* config.cache exists, slot is the value stored under "tach/durations"    *)
(* (None when the key is absent).  Beside each operation stands the number *)
(* of cache.get and cache.set calls it makes.                              *)
(***************************************************************************)
EmptyLedger == [n \in {} |-> 0]

\* Mutant: the cache object is used without testing that it exists.
HasCacheAssumed(cache) == TRUE

\* cache is not None, for cache = _get_pytest_cache(config)
HasCache(cache) == cache.available

\* _get_cached_durations
GetCachedDurations(cache) ==
    IF HasCache(cache) /\ cache.slot # None THEN cache.slot[1] ELSE EmptyLedger

\* number of cache.get calls of _get_cached_durations
GetCalls(cache) == IF HasCache(cache) THEN 1 ELSE 0

\* _save_durations
SaveDurations(cache, durations) ==
    IF HasCache(cache) THEN [cache EXCEPT !.slot = Some(durations)] ELSE cache

\* number of cache.set calls of _save_durations
SetCalls(cache) == IF HasCache(cache) THEN 1 ELSE 0

\* "::" in nodeid
HasScope(nodeid) == Len(nodeid) > 1

\* nodeid.split("::")[0]
FilePart(nodeid) == nodeid[1]

RECURSIVE SumOver(_, _)
SumOver(f, S) ==
    IF S = {} THEN 0
    ELSE LET x == CHOOSE y \in S : TRUE IN f[x] + SumOver(f, S \ {x})

\* Mutant: file parts are compared with the paths as given, unresolved.
MatchingEntriesUnresolved(cached_durations, skipped_paths) ==
    {n \in DOMAIN cached_durations : HasScope(n) /\ FilePart(n) \in skipped_paths}

\* The ledger entries whose file part resolves to one of the given paths.
MatchingEntries(cached_durations, skipped_paths) ==
    LET resolved_skipped == {Resolve(p) : p \in skipped_paths}
    IN  {n \in DOMAIN cached_durations :
            HasScope(n) /\ Resolve(FilePart(n)) \in resolved_skipped}

\* return total_duration if total_duration > 0 else None
EstimateResult(total_duration) ==
    IF total_duration > 0 THEN Some(total_duration) ELSE None

\* _estimate_skipped_duration
EstimateSkippedDuration(cache, skipped_paths) ==
    IF skipped_paths = {} THEN None
    ELSE LET cached_durations == GetCachedDurations(cache)
         IN  IF DOMAIN cached_durations = {} THEN None
             ELSE EstimateResult(
                      SumOver(cached_durations,
                              MatchingEntries(cached_durations, skipped_paths)))

\* number of cache.get calls of _estimate_skipped_duration
EstimateGetCalls(cache, skipped_paths) ==
    IF skipped_paths = {} THEN 0 ELSE GetCalls(cache)

\* durations[report.nodeid] = report.duration
Upsert(durations, nodeid, duration) ==
    [n \in DOMAIN durations \cup {nodeid} |->
        IF n = nodeid THEN duration ELSE durations[n]]

\* The loop of _record_test_durations over all_reports, in order.
RECURSIVE UpsertAll(_, _)
UpsertAll(durations, reports) ==
    IF reports = <<>> THEN durations
    ELSE LET report == Head(reports)
         IN  UpsertAll(IF report.when = "call"
                       THEN Upsert(durations, report.nodeid, report.duration)
                       ELSE durations,
                       Tail(reports))

\* Mutant: recording starts from an empty mapping.
ExistingDurationsFresh(cache) == EmptyLedger

\* The starting mapping of _record_test_durations.
ExistingDurations(cache) == GetCachedDurations(cache)

\* The categories _record_test_durations reads.
AllReports(stats) == stats.passed \o stats.failed \o stats.error

\* _record_test_durations: the cache after it.
RecordTestDurations(stats, cache) ==
    IF AllReports(stats) = <<>> THEN cache
    ELSE SaveDurations(cache, UpsertAll(ExistingDurations(cache), AllReports(stats)))

\* cache.get calls of _record_test_durations
RecordGetCalls(stats, cache) ==
    IF AllReports(stats) = <<>> THEN 0 ELSE GetCalls(cache)

\* cache.set calls of _record_test_durations
RecordSetCalls(stats, cache) ==
    IF AllReports(stats) = <<>> THEN 0 ELSE SetCalls(cache)

(***************************************************************************)
(* TachPytestPluginHandler, the impact oracle.  unaffected is the set of   *)
(* paths for which should_remove_items answers true; it is fixed when the  *)
(* handler is constructed.                                                 *)
(***************************************************************************)
NewHandler(changed_files, all_affected_modules, unaffected) ==
    [changed_files |-> changed_files,
     all_affected_modules |-> all_affected_modules,
     unaffected |-> unaffected,
     removed_test_paths |-> {},
     num_removed_items |-> 0,
     tests_ran_to_completion |-> FALSE]

\* handler.should_remove_items(file_path=...)
ShouldRemoveItems(handler, file_path) == file_path \in handler.unaffected

\* handler.remove_test_path(file_path)
RemoveTestPath(handler, file_path) ==
    [handler EXCEPT !.removed_test_paths = @ \cup {file_path}]

(***************************************************************************)
(* pytest_configure.  cli holds the four command line options; resolution  *)
(* is None when get_changed_files raises and the changed files otherwise.  *)
(***************************************************************************)
\* head = config.getoption("--tach-head") or None
HeadOption(cli) == IF cli.tach_head = "" THEN None ELSE Some(cli.tach_head)

\* Mutant: --tach-verbose enables skipping as well.
SkipEnabledByVerbose(cli) ==
    cli.tach \/ cli.tach_base # None \/ HeadOption(cli) # None \/ cli.tach_verbose

\* skip_enabled = tach_flag or tach_base_option is not None or bool(head)
SkipEnabled(cli) == cli.tach \/ cli.tach_base # None \/ HeadOption(cli) # None

\* base = tach_base_option if tach_base_option is not None else _get_default_branch(...)
BaseOf(cli, git) ==
    IF cli.tach_base # None THEN cli.tach_base[1] ELSE GetDefaultBranch(git)

\* get_changed_files(project_root=project_root, head=head, base=base): the
\* arguments of the call; head None asks for the working tree against base.
ResolverCall(cli, git) == [head |-> HeadOption(cli), base |-> BaseOf(cli, git)]

\* The message of the pytest.UsageError, as the pieces the f-string joins.
UsageErrorMessage(base) ==
    <<"[tach] Could not determine changed files (base='", base, "'). ",
      "The base branch may not exist in this checkout. ",
      "In CI, try: git fetch origin ", base, ":", base>>

\* Mutant: a resolution failure is always swallowed.
OnResolutionFailureNever(skip_enabled, base) == None

\* Mutant: a resolution failure is always fatal.
OnResolutionFailureAlways(skip_enabled, base) == Some(UsageErrorMessage(base))

\* What pytest_configure does when get_changed_files raised.
OnResolutionFailure(skip_enabled, base) ==
    IF skip_enabled THEN Some(UsageErrorMessage(base)) ELSE None

\* all_affected_modules={changed_file.resolve() for changed_file in changed_files}
AllAffectedModules(changed_files) == {Resolve(f) : f \in changed_files}

\* TachPluginState(...) as stored in config.stash[tach_state_key]
NewState(cli, git, changed_files, unaffected) ==
    [handler |-> NewHandler(changed_files, AllAffectedModules(changed_files), unaffected),
     skip_enabled |-> SkipEnabled(cli),
     verbose |-> cli.tach_verbose,
     base |-> BaseOf(cli, git),
     head |-> HeadOption(cli),
     would_skip_paths |-> {}]

\* pytest_configure: the stash entry it leaves, the error it raises, the
\* call of the resolver it makes and its side effects.
PytestConfigure(cli, git, config_found, resolution, unaffected) ==
    IF ~config_found
    THEN [stash |-> None, usage_error |-> None, resolver_call |-> None,
          effects |-> <<>>]
    ELSE IF resolution = None
    THEN [stash |-> None,
          usage_error |-> OnResolutionFailure(SkipEnabled(cli), BaseOf(cli, git)),
          resolver_call |-> Some(ResolverCall(cli, git)),
          effects |-> <<>>]
    ELSE [stash |-> Some(NewState(cli, git, resolution[1], unaffected)),
          usage_error |-> None,
          resolver_call |-> Some(ResolverCall(cli, git)),
          effects |-> <<"stash_set">>]

(***************************************************************************)
(* pytest_collect_file (a wrapper around native collection): native is the *)
(* list of collectors the wrapped hooks returned for file_path.            *)
(***************************************************************************)
\* Mutant: the membership test is made on the path as given, not resolved.
IsChangedFileUnresolved(handler, file_path) == file_path \in handler.all_affected_modules

\* str(resolved_path) in handler.all_affected_modules
IsChangedFile(handler, file_path) == Resolve(file_path) \in handler.all_affected_modules

\* Mutant: the path goes to one set only, chosen by the mode.
RecordRemovalByMode(state, file_path) ==
    IF state.skip_enabled
    THEN [state EXCEPT !.handler = RemoveTestPath(@, file_path)]
    ELSE [state EXCEPT !.would_skip_paths = @ \cup {file_path}]

\* handler.remove_test_path(file_path); state.would_skip_paths.add(file_path)
RecordRemoval(state, file_path) ==
    [state EXCEPT !.handler = RemoveTestPath(@, file_path),
                  !.would_skip_paths = @ \cup {file_path}]

\* Mutant: a removable file's collection is dropped.
CollectResultDropped(state, native) == <<>>

\* Mutant: a removable file's collection is dropped when skipping is enabled.
CollectResultDroppedWhenEnabled(state, native) ==
    IF state.skip_enabled THEN <<>> ELSE native

\* The list pytest_collect_file returns once a file is found removable.
CollectResultWhenRemovable(state, native) == native

\* Mutant: an empty native result is not passed through.
NativeIsEmptyIgnored(native) == FALSE

\* if not result
NativeIsEmpty(native) == native = <<>>

\* The hook: the list it returns, the stash after it, its side effects and
\* the paths it asked the oracle about.
PytestCollectFile(stash, file_path, native) ==
    IF stash = None
    THEN [result |-> native, stash |-> stash, effects |-> <<>>, queried |-> <<>>]
    ELSE IF NativeIsEmpty(native)
    THEN [result |-> native, stash |-> stash, effects |-> <<>>, queried |-> <<>>]
    ELSE IF IsChangedFile(stash[1].handler, file_path)
    THEN [result |-> native, stash |-> stash, effects |-> <<>>, queried |-> <<>>]
    ELSE IF ShouldRemoveItems(stash[1].handler, Resolve(file_path))
    THEN [result |-> CollectResultWhenRemovable(stash[1], native),
          stash |-> Some(RecordRemoval(stash[1], file_path)),
          effects |-> <<"remove_test_path", "would_skip_paths_add">>,
          queried |-> <<Resolve(file_path)>>]
    ELSE [result |-> native, stash |-> stash, effects |-> <<>>,
          queried |-> <<Resolve(file_path)>>]

(***************************************************************************)
(* pytest_collection_modifyitems                                           *)
(***************************************************************************)
\* list.remove(x): drop the first element equal to x
RECURSIVE ListRemove(_, _)
ListRemove(list, x) ==
    IF list = <<>> THEN <<>>
    ELSE IF Head(list) = x THEN Tail(list)
    ELSE <<Head(list)>> \o ListRemove(Tail(list), x)

\* Mutant: the removal loop stops after its first item.
RemoveEachFirstOnly(list, items_to_remove) ==
    IF items_to_remove = <<>> THEN list ELSE ListRemove(list, Head(items_to_remove))

\* for item in items_to_remove: items.remove(item)
RECURSIVE RemoveEach(_, _)
RemoveEach(list, items_to_remove) ==
    IF items_to_remove = <<>> THEN list
    ELSE RemoveEach(ListRemove(list, Head(items_to_remove)), Tail(items_to_remove))

\* [item for item in items if state.handler.should_remove_items(file_path=item.path)]
ItemsToRemove(handler, list) ==
    SelectSeq(list, LAMBDA item : ShouldRemoveItems(handler, item.path))

\* Mutant: the enablement test is inverted.
DeselectionAppliesInverted(state) == ~state.skip_enabled

\* if state.skip_enabled
DeselectionApplies(state) == state.skip_enabled

\* Mutant: the removable items are counted only when skipping is enabled.
NumRemovedItemsWhenEnabled(state, items_to_remove) ==
    IF state.skip_enabled THEN Len(items_to_remove) ELSE 0

\* state.handler.num_removed_items = len(items_to_remove)
NumRemovedItems(state, items_to_remove) == Len(items_to_remove)

\* The hook: the item list, the stash and the pytest_deselected calls after it.
PytestCollectionModifyitems(stash, list) ==
    IF stash = None
    THEN [items |-> list, stash |-> stash, deselected |-> <<>>, effects |-> <<>>]
    ELSE LET state == stash[1]
             items_to_remove == ItemsToRemove(state.handler, list)
             counted == [state EXCEPT !.handler.num_removed_items =
                                         NumRemovedItems(state, items_to_remove)]
         IN  IF DeselectionApplies(state)
             THEN [items |-> RemoveEach(list, items_to_remove),
                   stash |-> Some(counted),
                   deselected |-> <<items_to_remove>>,
                   effects |-> <<"num_removed_items_set">>
                               \o [i \in 1..Len(items_to_remove) |-> "items_remove"]
                               \o <<"pytest_deselected">>]
             ELSE [items |-> list, stash |-> Some(counted), deselected |-> <<>>,
                   effects |-> <<"num_removed_items_set">>]

(***************************************************************************)
(* pytest_report_collectionfinish.  A line is the tuple of its variable    *)
(* parts, tagged with its shape.  A set is listed in directory order.      *)
(***************************************************************************)
max_shown == 5

\* list(paths)
PathList(paths) == SelectSeq(PathOrder, LAMBDA p : p \in paths)

\* Mutant: the list is never truncated.
FormatPathsUntruncated(path_list, marker, verbose) ==
    [i \in 1..Len(path_list) |-> <<"path", marker, path_list[i]>>]

\* _format_paths
FormatPaths(path_list, marker, verbose) ==
    LET show_all == verbose \/ Len(path_list) <= max_shown
        shown == IF show_all THEN Len(path_list) ELSE max_shown
        lines == [i \in 1..shown |-> <<"path", marker, path_list[i]>>]
    IN  IF show_all THEN lines
        ELSE Append(lines, <<"more", Len(path_list) - max_shown>>)

\* _format_changed
FormatChanged(handler) ==
    IF handler.all_affected_modules = {} THEN <<>>
    ELSE LET sorted == PathList(handler.all_affected_modules)
         IN  <<<<"changed_header", Cardinality(handler.all_affected_modules)>>>>
             \o [i \in 1..Len(sorted) |-> <<"changed", sorted[i]>>]

\* The branch taken when state.skip_enabled.
ReportSkipEnabled(state, num_tests, num_files, estimated_duration) ==
    (IF state.verbose THEN FormatChanged(state.handler) ELSE <<>>)
    \o <<<<"skipped", num_tests, num_files, estimated_duration>>>>
    \o FormatPaths(PathList(state.handler.removed_test_paths), "-", state.verbose)

\* The branch taken when not state.skip_enabled.
ReportSkipDisabled(state, num_tests, num_files, estimated_duration) ==
    LET removed == PathList(state.handler.removed_test_paths)
    IN  <<<<"unaffected", num_tests, num_files, estimated_duration>>, <<"disable_hint">>>>
        \o (IF state.verbose
            THEN FormatChanged(state.handler)
                 \o <<<<"would_skip_header">>>>
                 \o [i \in 1..Len(removed) |-> <<"path", "?", removed[i]>>]
            ELSE <<>>)

\* The lines the hook returns.
PytestReportCollectionfinish(stash, cache) ==
    IF stash = None THEN <<>>
    ELSE LET state == stash[1]
             num_files == Cardinality(state.handler.removed_test_paths)
             num_tests == state.handler.num_removed_items
             estimated_duration == EstimateSkippedDuration(cache, state.would_skip_paths)
         IN  IF num_tests = 0 THEN <<>>
             ELSE IF state.skip_enabled
             THEN ReportSkipEnabled(state, num_tests, num_files, estimated_duration)
             ELSE ReportSkipDisabled(state, num_tests, num_files, estimated_duration)

\* Side effects of the hook: the lines it hands to the runner for display.
ReportEffects(stash, cache) ==
    IF PytestReportCollectionfinish(stash, cache) = <<>> THEN <<>> ELSE <<"report_lines">>

\* cache.get calls of the hook
ReportGetCalls(stash, cache) ==
    IF stash = None THEN 0
    ELSE IF stash[1].handler.num_removed_items = 0 THEN 0
    ELSE EstimateGetCalls(cache, stash[1].would_skip_paths)

(***************************************************************************)
(* pytest_terminal_summary.  A report is [nodeid, fspath, when, duration]; *)
(* stats maps a category to the list of its reports.                       *)
(***************************************************************************)
\* Mutant: the validation block does not test skip_enabled.
ValidationAppliesAlways(state) == state.would_skip_paths # {}

\* if not state.skip_enabled and state.would_skip_paths
ValidationApplies(state) == ~state.skip_enabled /\ state.would_skip_paths # {}

\* The reports of the loop that are appended to failed_would_skip.
IsFailedWouldSkip(state, report) ==
    /\ report.fspath # ""
    /\ Resolve(report.fspath) \in {Resolve(p) : p \in state.would_skip_paths}

\* failed_would_skip
FailedWouldSkip(state, stats) ==
    LET hits == SelectSeq(stats.failed, LAMBDA report : IsFailedWouldSkip(state, report))
    IN  [i \in 1..Len(hits) |-> hits[i].nodeid]

\* What the validation block writes to the terminal.
ValidationLines(state, stats) ==
    IF ~ValidationApplies(state) THEN <<>>
    ELSE LET failed_would_skip == FailedWouldSkip(state, stats)
         IN  IF failed_would_skip = <<>> THEN <<>>
             ELSE << <<"sep", "Tach Impact Analysis Warning">>,
                     <<"warning", Len(failed_would_skip)>>,
                     <<"missed_header">> >>
                  \o [i \in 1..Len(failed_would_skip) |-> <<"nodeid", failed_would_skip[i]>>]

\* Mutant: the durations are recorded before the validation block.
SummaryStepsRecordFirst(completed, validation, record) == completed \o record \o validation

\* The order of the hook's three parts: the handler flag (line 458), the
\* validation block (lines 462-488), _record_test_durations (line 491).
SummarySteps(completed, validation, record) == completed \o validation \o record

\* The hook: the stash, what it writes, the cache after it, and its side
\* effects in order.
PytestTerminalSummary(stash, stats, cache) ==
    IF stash = None
    THEN [stash |-> stash, written |-> <<>>, cache |-> cache, gets |-> 0, sets |-> 0,
          effects |-> <<>>]
    ELSE [stash |-> Some([stash[1] EXCEPT !.handler.tests_ran_to_completion = TRUE]),
          written |-> ValidationLines(stash[1], stats),
          cache |-> RecordTestDurations(stats, cache),
          gets |-> RecordGetCalls(stats, cache),
          sets |-> RecordSetCalls(stats, cache),
          effects |->
              SummarySteps(
                  <<"tests_ran_to_completion_set">>,
                  [i \in 1..Len(ValidationLines(stash[1], stats)) |-> "write_line"],
                  [i \in 1..RecordSetCalls(stats, cache) |-> "cache_set"])]

(***************************************************************************)
(* The state of one pytest session.                                        *)
(***************************************************************************)
VARIABLES
    cli,            \* the command line options --tach, --tach-base, --tach-head, --tach-verbose
    git,            \* what the git invocations of _get_default_branch answer
    testpaths,      \* the files the runner offers to pytest_collect_file
    phase,          \* the runner's position in the hook sequence
    configured,     \* how pytest_configure ended: "no_config", "unresolved" or "resolved"
    stash,          \* config.stash[tach_state_key]: None or the TachPluginState
    usage_error,    \* the pytest.UsageError raised by pytest_configure, if any
    visited,        \* the files pytest_collect_file was called for
    last_collect,   \* the last pytest_collect_file call: file, native and returned result, oracle queries
    items,          \* the session's item list
    native_items,   \* the items of the native collection results, in collection order
    collected,      \* the item list as handed to pytest_collection_modifyitems
    deselected,     \* the calls of config.hook.pytest_deselected, each with its items
    report_lines,   \* what pytest_report_collectionfinish returned
    stats,          \* terminalreporter.stats
    written,        \* what pytest_terminal_summary wrote to the terminal
    cache,          \* pytest's cache: whether it exists and the "tach/durations" slot
    cache_before,   \* the cache as it was before the last recording
    gets,           \* number of cache.get calls so far
    sets,           \* number of cache.set calls so far
    estimate,       \* the last _estimate_skipped_duration call: paths and result
    resolver_call,  \* the get_changed_files call of pytest_configure: None or its arguments
    effects,        \* the side effects of the plugin so far, in order: state changes, hook calls, output, cache writes
    default_branch  \* what the last _get_default_branch call returned, if it was called on its own

vars == <<cli, git, testpaths, default_branch, effects, resolver_call, native_items, phase, configured, stash, usage_error, visited,
          last_collect, items, collected, deselected, report_lines, stats,
          written, cache, cache_before, gets, sets, estimate>>

EmptyStats == [passed |-> <<>>, failed |-> <<>>, error |-> <<>>, xfailed |-> <<>>]

NoCollect == [file_path |-> "", native |-> <<>>, result |-> <<>>, queried |-> <<>>]

NoEstimate == [paths |-> {}, result |-> None]

(***************************************************************************)
(* Inputs.                                                                 *)
(***************************************************************************)
GitOk(ref) == [raised |-> FALSE, returncode |-> 0, stdout |-> ref]
GitFails == [raised |-> FALSE, returncode |-> 128, stdout |-> <<>>]
GitRaises == [raised |-> TRUE, returncode |-> 0, stdout |-> <<>>]

\* origin/HEAD points at main
GitOriginMain ==
    [symref |-> GitOk(<<"refs", "remotes", "origin", "main">>),
     verify |-> [b \in {"main", "master"} |-> GitOk(<<>>)]]

\* no remote; only master exists locally
GitLocalMaster ==
    [symref |-> GitFails,
     verify |-> [b \in {"main", "master"} |-> IF b = "master" THEN GitOk(<<>>) ELSE GitFails]]

\* git cannot be run at all
GitBroken ==
    [symref |-> GitRaises, verify |-> [b \in {"main", "master"} |-> GitRaises]]

\* All option combinations.
CliAll ==
    [tach : BOOLEAN, tach_base : {None, Some("dev")}, tach_head : {"", "HEAD~1"},
     tach_verbose : BOOLEAN]

\* Option combinations that differ only in --tach and --tach-verbose.
CliFlags == {c \in CliAll : c.tach_base = None /\ c.tach_head = ""}

\* A ledger left by an earlier session.
EarlierLedger ==
    [n \in {<<"a_test.py", 1>>, <<"b_test.py", 1>>} |->
        IF n = <<"b_test.py", 1>> THEN MaxDuration ELSE 0]

NoCache == [available |-> FALSE, slot |-> None]

SessionCaches ==
    {NoCache, [available |-> TRUE, slot |-> None],
     [available |-> TRUE, slot |-> Some(EarlierLedger)]}

\* The categories of terminalreporter.stats.
Categories == {"passed", "failed", "error", "xfailed"}

\* How an executed test of a session ends.
Outcomes == {"passed", "failed", "error"}

\* Assignments of an outcome to each of n executed items, at most MaxFailures not passing.
OutcomeLists(n) ==
    {o \in [1..n -> Outcomes] : Cardinality({i \in 1..n : o[i] # "passed"}) <= MaxFailures}

\* The report the terminal reporter files for an item under an outcome: a
\* failure during setup is filed under "error" as a setup-phase report, every
\* other outcome as the call-phase report.
ReportOf(item, outcome, duration) ==
    [nodeid |-> NodeId(item), fspath |-> item.path,
     when |-> IF outcome = "error" THEN "setup" ELSE "call",
     duration |-> duration]

\* terminalreporter.stats after running the items with the given outcomes.
StatsOf(list, o, duration) ==
    [c \in Categories |->
        LET idx == SelectSeq([i \in 1..Len(list) |-> i], LAMBDA i : o[i] = c)
        IN  [k \in 1..Len(idx) |-> ReportOf(list[idx[k]], c, duration)]]

(***************************************************************************)
(* The session: the hooks in the order the runner calls them.              *)
(***************************************************************************)
InitSession(clis, gits, paths, caches) ==
    /\ cli \in clis
    /\ git \in gits
    /\ testpaths = paths
    /\ phase = "configure"
    /\ configured = "not_yet"
    /\ stash = None
    /\ usage_error = None
    /\ visited = {}
    /\ last_collect = NoCollect
    /\ items = <<>>
    /\ native_items = <<>>
    /\ collected = <<>>
    /\ deselected = <<>>
    /\ report_lines = <<>>
    /\ stats = EmptyStats
    /\ written = <<>>
    /\ cache \in caches
    /\ cache_before = cache
    /\ gets = 0
    /\ sets = 0
    /\ estimate = NoEstimate
    /\ default_branch = None
    /\ effects = <<>>
    /\ resolver_call = None

Init == InitSession(CliFlags, {GitOriginMain}, Paths, SessionCaches)

Configure ==
    /\ phase = "configure"
    /\ \E config_found \in BOOLEAN,
          resolution \in {None} \cup {Some(c) : c \in SUBSET testpaths},
          unaffected \in SUBSET testpaths :
           LET r == PytestConfigure(cli, git, config_found, resolution, unaffected)
           IN  /\ stash' = r.stash
               /\ usage_error' = r.usage_error
               /\ resolver_call' = r.resolver_call
               /\ effects' = effects \o r.effects
               /\ configured' = IF ~config_found THEN "no_config"
                                ELSE IF resolution = None THEN "unresolved"
                                ELSE "resolved"
               /\ phase' = IF r.usage_error # None THEN "aborted" ELSE "collect"
    /\ UNCHANGED <<cli, git, testpaths, default_branch, native_items, visited, last_collect, items, collected,
                   deselected, report_lines, stats, written, cache, cache_before,
                   gets, sets, estimate>>

CollectFile ==
    /\ phase = "collect"
    /\ \E file_path \in testpaths \ visited, native_empty \in BOOLEAN :
           LET native == IF native_empty THEN <<>> ELSE <<file_path>>
               r == PytestCollectFile(stash, file_path, native)
           IN  /\ \A q \in visited : PathIndex(q) < PathIndex(file_path)
               /\ visited' = visited \cup {file_path}
               /\ stash' = r.stash
               /\ effects' = effects \o r.effects
               /\ last_collect' =
                      [file_path |-> file_path, native |-> native, result |-> r.result,
                       queried |-> r.queried]
               /\ items' = items \o (IF r.result = <<>> THEN <<>> ELSE GenItems(r.result[1]))
               /\ native_items' =
                      native_items \o (IF native = <<>> THEN <<>> ELSE GenItems(native[1]))
    /\ UNCHANGED <<cli, git, testpaths, default_branch, resolver_call, phase, configured, usage_error, collected,
                   deselected, report_lines, stats, written, cache, cache_before,
                   gets, sets, estimate>>

ModifyItems ==
    /\ phase = "collect"
    /\ LET r == PytestCollectionModifyitems(stash, items)
       IN  /\ collected' = items
           /\ items' = r.items
           /\ stash' = r.stash
           /\ deselected' = deselected \o r.deselected
           /\ effects' = effects \o r.effects
    /\ phase' = "report"
    /\ UNCHANGED <<cli, git, testpaths, default_branch, resolver_call, native_items, configured, usage_error, visited, last_collect,
                   report_lines, stats, written, cache, cache_before, gets, sets,
                   estimate>>

ReportCollectionFinish ==
    /\ phase = "report"
    /\ report_lines' = PytestReportCollectionfinish(stash, cache)
    /\ gets' = gets + ReportGetCalls(stash, cache)
    /\ effects' = effects \o ReportEffects(stash, cache)
    /\ phase' = "run"
    /\ UNCHANGED <<cli, git, testpaths, default_branch, resolver_call, native_items, configured, stash, usage_error, visited,
                   last_collect, items, collected, deselected, stats, written, cache,
                   cache_before, sets, estimate>>

RunTests ==
    /\ phase = "run"
    /\ \E o \in OutcomeLists(Len(items)) : stats' = StatsOf(items, o, MaxDuration)
    /\ phase' = "summary"
    /\ UNCHANGED <<cli, git, testpaths, default_branch, effects, resolver_call, native_items, configured, stash, usage_error, visited,
                   last_collect, items, collected, deselected, report_lines, written,
                   cache, cache_before, gets, sets, estimate>>

TerminalSummary ==
    /\ phase = "summary"
    /\ LET r == PytestTerminalSummary(stash, stats, cache)
       IN  /\ stash' = r.stash
           /\ written' = r.written
           /\ cache' = r.cache
           /\ gets' = gets + r.gets
           /\ sets' = sets + r.sets
           /\ effects' = effects \o r.effects
    /\ cache_before' = cache
    /\ phase' = "done"
    /\ UNCHANGED <<cli, git, testpaths, default_branch, resolver_call, native_items, configured, usage_error, visited, last_collect,
                   items, collected, deselected, report_lines, stats, estimate>>

Next ==
    \/ Configure
    \/ CollectFile
    \/ ModifyItems
    \/ ReportCollectionFinish
    \/ RunTests
    \/ TerminalSummary

Spec == Init /\ [][Next]_vars

(***************************************************************************)
(* The same session under every combination of the command line options    *)
(* and several git answers, over a single test file.                       *)
(***************************************************************************)
InitOptions ==
    InitSession(CliAll, {GitOriginMain, GitLocalMaster, GitBroken}, {"b_test.py"},
                {NoCache, [available |-> TRUE, slot |-> Some(EarlierLedger)]})

SpecOptions == InitOptions /\ [][Next]_vars

(***************************************************************************)
(* The duration ledger on its own, from any ledger the cache may hold:     *)
(* estimates (SpecEstimate) and recordings run after run (SpecLedger).     *)
(***************************************************************************)
\* The test ids reports are filed for.
ReportedIds == {<<"a_test.py", 1>>, <<"b_test.py", 1>>}

\* The keys a stored ledger may hold; <<"b_test.py">> is a key without "::".
LedgerIds == ReportedIds \cup {<<"b_test.py">>}

Ledgers == UNION {[D -> 0..MaxDuration] : D \in SUBSET LedgerIds}

LedgerCaches == {NoCache, [available |-> TRUE, slot |-> None]}
                    \cup {[available |-> TRUE, slot |-> Some(l)] : l \in Ledgers}

\* What one run files for a test: nothing, or one report of some outcome and duration.
RunResults ==
    {None} \cup {Some([outcome |-> o, duration |-> d]) : o \in Categories, d \in 0..MaxDuration}

\* terminalreporter.stats of a run in which test a_test.py::1 ended as ra and b_test.py::1 as rb.
LedgerStats(ra, rb) ==
    [c \in Categories |->
        (IF ra # None /\ ra[1].outcome = c
         THEN <<ReportOf([path |-> "a_test.py", name |-> 1], c, ra[1].duration)>> ELSE <<>>)
        \o
        (IF rb # None /\ rb[1].outcome = c
         THEN <<ReportOf([path |-> "b_test.py", name |-> 1], c, rb[1].duration)>> ELSE <<>>)]

InitLedger ==
    /\ cli = [tach |-> FALSE, tach_base |-> None, tach_head |-> "", tach_verbose |-> FALSE]
    /\ git = GitOriginMain
    /\ testpaths = Paths
    /\ phase = "ledger"
    /\ configured = "not_yet"
    /\ stash = None
    /\ usage_error = None
    /\ visited = {}
    /\ last_collect = NoCollect
    /\ items = <<>>
    /\ native_items = <<>>
    /\ collected = <<>>
    /\ deselected = <<>>
    /\ report_lines = <<>>
    /\ stats = EmptyStats
    /\ written = <<>>
    /\ cache \in LedgerCaches
    /\ cache_before = cache
    /\ gets = 0
    /\ sets = 0
    /\ estimate = NoEstimate
    /\ default_branch = None
    /\ effects = <<>>
    /\ resolver_call = None

\* A call of _estimate_skipped_duration.
Estimate ==
    /\ phase = "ledger"
    /\ \E paths \in SUBSET Paths :
           /\ estimate' = [paths |-> paths, result |-> EstimateSkippedDuration(cache, paths)]
           /\ gets' = EstimateGetCalls(cache, paths)
    /\ UNCHANGED <<cli, git, testpaths, default_branch, effects, resolver_call, native_items, phase, configured, stash, usage_error, visited,
                   last_collect, items, collected, deselected, report_lines, stats,
                   written, cache, cache_before, sets>>

\* A run ends and _record_test_durations is called with its reports.
Record ==
    /\ phase = "ledger"
    /\ \E ra \in RunResults, rb \in RunResults :
           /\ stats' = LedgerStats(ra, rb)
           /\ cache' = RecordTestDurations(LedgerStats(ra, rb), cache)
           /\ gets' = RecordGetCalls(LedgerStats(ra, rb), cache)
           /\ sets' = RecordSetCalls(LedgerStats(ra, rb), cache)
    /\ cache_before' = cache
    /\ UNCHANGED <<cli, git, testpaths, default_branch, effects, resolver_call, native_items, phase, configured, stash, usage_error, visited,
                   last_collect, items, collected, deselected, report_lines, written,
                   estimate>>

NextEstimate == Estimate

SpecEstimate == InitLedger /\ [][NextEstimate]_vars

NextLedger == Record

SpecLedger == InitLedger /\ [][NextLedger]_vars

(***************************************************************************)
(* _get_default_branch on its own, under every combination of answers of   *)
(* its three git invocations.                                              *)
(***************************************************************************)
\* What origin/HEAD may point at; the last one is a branch named with a "/".
RemoteHeads ==
    {<<"refs", "remotes", "origin", "main">>, <<"refs", "remotes", "origin", "master">>,
     <<"refs", "remotes", "origin", "develop">>,
     <<"refs", "remotes", "origin", "release", "v2">>}

\* git symbolic-ref exits with an error after printing a ref.
GitFailsWithOutput ==
    [raised |-> FALSE, returncode |-> 1, stdout |-> <<"refs", "remotes", "origin", "master">>]

\* The outcomes of git symbolic-ref refs/remotes/origin/HEAD.
SymrefAnswers ==
    {GitOk(ref) : ref \in RemoteHeads} \cup {GitFails, GitFailsWithOutput, GitRaises}

\* The outcomes of git rev-parse --verify <branch>.
VerifyAnswers == {GitOk(<<>>), GitFails, GitRaises}

GitAnswers == [symref : SymrefAnswers, verify : [{"main", "master"} -> VerifyAnswers]]

InitGit ==
    /\ cli = [tach |-> FALSE, tach_base |-> None, tach_head |-> "", tach_verbose |-> FALSE]
    /\ git \in GitAnswers
    /\ testpaths = Paths
    /\ phase = "git"
    /\ configured = "not_yet"
    /\ stash = None
    /\ usage_error = None
    /\ visited = {}
    /\ last_collect = NoCollect
    /\ items = <<>>
    /\ native_items = <<>>
    /\ collected = <<>>
    /\ deselected = <<>>
    /\ report_lines = <<>>
    /\ stats = EmptyStats
    /\ written = <<>>
    /\ cache = NoCache
    /\ cache_before = cache
    /\ gets = 0
    /\ sets = 0
    /\ estimate = NoEstimate
    /\ resolver_call = None
    /\ effects = <<>>
    /\ default_branch = None

\* A call of _get_default_branch.
DetectDefaultBranch ==
    /\ phase = "git"
    /\ default_branch' = Some(GetDefaultBranch(git))
    /\ phase' = "detected"
    /\ UNCHANGED <<cli, git, testpaths, effects, resolver_call, native_items, configured, stash,
                   usage_error, visited, last_collect, items, collected, deselected,
                   report_lines, stats, written, cache, cache_before, gets, sets,
                   estimate>>

NextGit == DetectDefaultBranch

SpecGit == InitGit /\ [][NextGit]_vars

(***************************************************************************)
(* pytest_report_collectionfinish on its own, after a collection that      *)
(* recorded any set of up to seven files.                                  *)
(***************************************************************************)
ReportPaths == Range(PathOrder)

\* The plugin state after item filtering: the recorded files, in both sets,
\* and the number of removable items.
ReportState(changed, recorded, k, enabled, verbose) ==
    [handler |-> [NewHandler(changed, AllAffectedModules(changed), recorded)
                      EXCEPT !.removed_test_paths = recorded,
                             !.num_removed_items = k],
     skip_enabled |-> enabled,
     verbose |-> verbose,
     base |-> "main",
     head |-> None,
     would_skip_paths |-> recorded]

\* The files that may be recorded when the given files changed.
Recordable(changed) ==
    {p \in ReportPaths : Resolve(p) \notin AllAffectedModules(changed)}

\* Nothing changed or b_test.py changed; any set of recorded files, with no
\* removable item or one per file.
ReportStates ==
    UNION {{ReportState(cr[1], cr[2], k, enabled, verbose) :
                k \in {0, Cardinality(cr[2])}, enabled \in BOOLEAN, verbose \in BOOLEAN} :
           cr \in UNION {{<<changed, recorded>> : recorded \in SUBSET Recordable(changed)} :
                             changed \in {{}, {"b_test.py"}}}}

InitReport ==
    /\ cli = [tach |-> FALSE, tach_base |-> None, tach_head |-> "", tach_verbose |-> FALSE]
    /\ git = GitOriginMain
    /\ testpaths = Paths
    /\ phase = "report"
    /\ configured = "resolved"
    /\ stash \in {Some(state) : state \in ReportStates}
    /\ usage_error = None
    /\ visited = {}
    /\ last_collect = NoCollect
    /\ items = <<>>
    /\ native_items = <<>>
    /\ collected = <<>>
    /\ deselected = <<>>
    /\ report_lines = <<>>
    /\ stats = EmptyStats
    /\ written = <<>>
    /\ cache \in {NoCache, [available |-> TRUE, slot |-> Some(EarlierLedger)]}
    /\ cache_before = cache
    /\ gets = 0
    /\ sets = 0
    /\ estimate = NoEstimate
    /\ resolver_call = None
    /\ effects = <<>>
    /\ default_branch = None

NextReport == ReportCollectionFinish

SpecReport == InitReport /\ [][NextReport]_vars

(***************************************************************************)
(* Properties.                                                             *)
(***************************************************************************)
\* pytest_collection_modifyitems has returned.
ItemsFiltered == phase \in {"report", "run", "summary", "done"}

\* The paths recorded at collection time, in either set.
RecordedPaths == stash[1].handler.removed_test_paths \cup stash[1].would_skip_paths

\* The changed-file set, resolved.
ChangedFileSet == stash[1].handler.all_affected_modules

\* C1: forced-keep at file level.  In every state of a session, whatever the
\* changed files, the oracle's answers and the calls of pytest_collect_file so
\* far, and in either enablement mode, no path whose resolved form is in the
\* changed-file set is in handler.removed_test_paths or in would_skip_paths.
C1_ForcedKeepAtFileLevel ==
    stash # None => \A p \in RecordedPaths : Resolve(p) \notin ChangedFileSet

\* C1 witness: pytest_collect_file has just handled the link to a changed file
\* that natively collected something and that the oracle calls removable, and
\* recorded nothing for it.
C1_Witness ==
    /\ stash # None
    /\ last_collect.file_path = "link_a_test.py"
    /\ last_collect.native # <<>>
    /\ "a_test.py" \in ChangedFileSet
    /\ "a_test.py" \in stash[1].handler.unaffected
    /\ "link_a_test.py" \notin RecordedPaths
    /\ "b_test.py" \in RecordedPaths

\* C2: conservativeness at item level.  With skip enabled, no item handed to
\* the deselection hook belongs to a file of the changed-file set.
C2_NoChangedItemDeselected ==
    (stash # None /\ stash[1].skip_enabled) =>
        \A i \in 1..Len(deselected) : \A item \in Range(deselected[i]) :
            Resolve(item.path) \notin ChangedFileSet

\* The item list pytest_collection_modifyitems leaves for the same collected
\* list, changed files and oracle when skipping is disabled.
ItemsLeftWhenDisabled ==
    PytestCollectionModifyitems(Some([stash[1] EXCEPT !.skip_enabled = FALSE]),
                                collected).items

\* C3: monotonicity.  After pytest_collection_modifyitems with skip enabled,
\* the items left to execute are among those left with skip disabled for the
\* same collected list, changed files and oracle, and are no more numerous.
C3_Monotonicity ==
    (ItemsFiltered /\ stash # None /\ stash[1].skip_enabled) =>
        /\ Range(items) \subseteq Range(ItemsLeftWhenDisabled)
        /\ Len(items) <= Len(ItemsLeftWhenDisabled)

\* C3 witness: skip enabled, and strictly fewer items are left than the
\* disabled mode leaves, with some item still left.
C3_Witness ==
    /\ ItemsFiltered /\ stash # None /\ stash[1].skip_enabled
    /\ items # <<>>
    /\ Len(items) < Len(ItemsLeftWhenDisabled)

\* The oracle's answer for an item.
OracleRemoves(item) == item.path \in stash[1].handler.unaffected

\* C4: with skip enabled, after pytest_collection_modifyitems the item list
\* is the collected list restricted, in order, to the items the oracle does
\* not report removable; the deselection hook was called once, with exactly
\* the removed items, as many as num_removed_items; before the hook returns
\* the runner holds the unfiltered list.
C4_DeselectionExact ==
    (stash # None /\ stash[1].skip_enabled) =>
        IF ItemsFiltered
        THEN /\ items = SelectSeq(collected, LAMBDA item : ~OracleRemoves(item))
             /\ Len(deselected) = 1
             /\ deselected[1] = SelectSeq(collected, OracleRemoves)
             /\ Len(deselected[1]) = stash[1].handler.num_removed_items
        ELSE /\ items = native_items
             /\ deselected = <<>>

\* C4 witness: skip enabled, two items were deselected and one is left.
C4_Witness ==
    /\ ItemsFiltered /\ stash # None /\ stash[1].skip_enabled
    /\ Len(deselected) = 1
    /\ Len(deselected[1]) = 2
    /\ Len(items) = 1

\* C5: with skip disabled and the state present, pytest_configure raised
\* nothing, every pytest_collect_file call returned the native result,
\* the item list is the natively collected one before and after
\* pytest_collection_modifyitems, and the deselection hook was never called.
C5_DisabledChangesNothing ==
    (stash # None /\ ~stash[1].skip_enabled) =>
        /\ usage_error = None
        /\ last_collect.result = last_collect.native
        /\ items = native_items
        /\ deselected = <<>>

\* C5 witness: a finished session with skip disabled in which the oracle
\* reported collected files removable and every collected item still ran.
C5_Witness ==
    /\ phase = "done"
    /\ stash # None /\ ~stash[1].skip_enabled
    /\ stash[1].handler.num_removed_items = 2
    /\ stash[1].would_skip_paths # {}
    /\ Len(items) = 3
    /\ Len(AllReports(stats)) = 3

\* Skipping was explicitly requested on the command line.
SkipRequested == cli.tach \/ cli.tach_base # None \/ cli.tach_head # ""

\* The base the session diffs against: the explicit one, or the branch git's
\* answers single out (master only when it alone exists and origin/HEAD is unset).
ExpectedBase ==
    IF cli.tach_base # None THEN cli.tach_base[1]
    ELSE IF git = GitLocalMaster THEN "master" ELSE "main"

\* No hook of the plugin after pytest_configure has had any effect.
NothingHappened ==
    /\ visited = {} /\ items = <<>> /\ deselected = <<>>
    /\ report_lines = <<>> /\ stats = EmptyStats /\ written = <<>>
    /\ gets = 0 /\ sets = 0 /\ cache = cache_before

\* C6: when change resolution fails and skipping was requested (--tach,
\* --tach-base or a non-empty --tach-head), pytest_configure raises a usage
\* error whose message contains the base (explicit or auto-detected) and the
\* remediation command "git fetch origin <base>:<base>"; no state is stored,
\* the session is aborted and no later phase of the plugin occurs.
C6_FatalWhenSkipRequested ==
    (configured = "unresolved" /\ SkipRequested) =>
        /\ usage_error # None
        /\ \E i \in 1..Len(usage_error[1]) : usage_error[1][i] = ExpectedBase
        /\ \E i \in 1..(Len(usage_error[1]) - 3) :
              /\ usage_error[1][i] = "In CI, try: git fetch origin "
              /\ usage_error[1][i + 1] = ExpectedBase
              /\ usage_error[1][i + 2] = ":"
              /\ usage_error[1][i + 3] = ExpectedBase
        /\ stash = None
        /\ phase = "aborted"
        /\ NothingHappened

\* C6 witness: resolution failed with only --tach-head given, and the error
\* names the auto-detected base master.
C6_Witness ==
    /\ configured = "unresolved"
    /\ ~cli.tach /\ cli.tach_base = None /\ cli.tach_head = "HEAD~1"
    /\ usage_error # None
    /\ usage_error[1][2] = "master"

\* C7: when no project configuration is found, or change resolution fails
\* with no skip flag given, pytest_configure raises nothing and stores no
\* state, and every later hook is a pass-through: collection results and the
\* item list are the native ones, nothing is deselected, the report has no
\* lines, no warning is written and the cache is neither read nor written.
C7_SilentPassThrough ==
    (configured = "no_config" \/ (configured = "unresolved" /\ ~SkipRequested)) =>
        /\ usage_error = None
        /\ stash = None
        /\ phase # "aborted"
        /\ last_collect.result = last_collect.native
        /\ items = native_items
        /\ deselected = <<>>
        /\ report_lines = <<>>
        /\ written = <<>>
        /\ gets = 0 /\ sets = 0 /\ cache = cache_before

\* C7 witness: a finished session whose resolution failed with no skip flag,
\* with a test collected, run and failed, and a ledger in the cache.
C7_Witness ==
    /\ configured = "unresolved" /\ ~SkipRequested
    /\ phase = "done"
    /\ stats.failed # <<>>
    /\ cache.available /\ cache.slot # None

\* The mapping stored in a cache's "tach/durations" slot.
Stored(c) == IF c.slot = None THEN EmptyLedger ELSE c.slot[1]

\* The test ids the last run filed a report for, in any category and phase.
ExecutedIds ==
    {r.nodeid : r \in UNION {Range(stats[c]) : c \in Categories}}

\* C8: merge, not replace.  After _record_test_durations, every entry of the
\* ledger as persisted before the run whose test id was not executed in the
\* run is still present with the same duration.
C8_MergeNotReplace ==
    \A n \in DOMAIN Stored(cache_before) :
        n \notin ExecutedIds =>
            /\ n \in DOMAIN Stored(cache)
            /\ Stored(cache)[n] = Stored(cache_before)[n]

\* C8 witness: a run executed only b_test.py::1; its entry was rewritten and
\* the entries of a_test.py::1 and of the key without "::" were kept.
C8_Witness ==
    /\ stats.passed # <<>>
    /\ ExecutedIds = {<<"b_test.py", 1>>}
    /\ DOMAIN Stored(cache_before) = LedgerIds
    /\ Stored(cache_before)[<<"b_test.py", 1>>] = 0
    /\ Stored(cache)[<<"b_test.py", 1>>] = 1
    /\ Stored(cache)[<<"a_test.py", 1>>] = 1
    /\ <<"b_test.py">> \in DOMAIN Stored(cache)

\* The ledger the estimate reads: the stored one, or none without a cache.
ReadableLedger == IF cache.available THEN Stored(cache) ELSE EmptyLedger

\* The ledger entries whose file part names, after resolution, one of the
\* paths of the last estimate.
EstimateMatches ==
    {n \in DOMAIN ReadableLedger :
        /\ Len(n) >= 2
        /\ \E p \in estimate.paths : Resolve(n[1]) = Resolve(p)}

EstimateSum == SumOver(ReadableLedger, EstimateMatches)

\* C9 as stated: _estimate_skipped_duration returns absent when the paths
\* are empty or no entry matches, and otherwise the sum of the matching
\* durations, also when that sum is zero.
C9_EstimateAsClaimed ==
    estimate.result =
        IF estimate.paths = {} \/ EstimateMatches = {} THEN None ELSE Some(EstimateSum)

\* C9 amended: _estimate_skipped_duration returns absent when the paths are
\* empty, when no entry matches, or when the matching durations sum to zero,
\* and otherwise exactly the sum of the matching durations.
C9_EstimateAmended ==
    estimate.result =
        IF estimate.paths = {} \/ EstimateMatches = {} \/ EstimateSum = 0
        THEN None ELSE Some(EstimateSum)

\* C9 witness: an estimate over the link to a_test.py and b_test.py that
\* adds up two matching entries, with a third entry not matching.
C9_Witness ==
    /\ estimate.paths = {"link_a_test.py", "b_test.py"}
    /\ DOMAIN ReadableLedger = LedgerIds
    /\ Cardinality(EstimateMatches) = 2
    /\ estimate.result = Some(2)

\* The failed reports of the run that belong to a would-skip file.
WouldSkipFailures ==
    SelectSeq(stats.failed,
              LAMBDA r : \E p \in stash[1].would_skip_paths : Resolve(r.fspath) = Resolve(p))

\* The test ids the warning section lists, in order.
ListedIds ==
    LET lines == SelectSeq(written, LAMBDA l : l[1] = "nodeid")
    IN  [i \in 1..Len(lines) |-> lines[i][2]]

\* The state part of C10: nothing is written before pytest_terminal_summary
\* or without a state; after it the warning section is present exactly under
\* the three conditions and lists exactly the failed would-skip test ids.
C10_Validation ==
    /\ phase # "done" => written = <<>>
    /\ stash = None => written = <<>>
    /\ (phase = "done" /\ stash # None) =>
          /\ written # <<>> <=>
                 /\ ~stash[1].skip_enabled
                 /\ stash[1].would_skip_paths # {}
                 /\ WouldSkipFailures # <<>>
          /\ ListedIds = [i \in 1..Len(WouldSkipFailures) |-> WouldSkipFailures[i].nodeid]
                 \/ written = <<>>
          /\ stash[1].skip_enabled => written = <<>>

\* C10: pytest_terminal_summary writes the warning section if and only if
\* skip is disabled, would_skip_paths is non-empty and a failed report belongs
\* to a would-skip file; the section lists exactly the ids of those reports;
\* with skip enabled nothing is written; and the hook leaves the reports and
\* the item list as they were.
C10_PostRunValidation ==
    /\ []C10_Validation
    /\ [][phase = "summary" => (stats' = stats /\ items' = items)]_vars

\* C10 witness: skip disabled, two tests failed, one of them in a would-skip
\* file, and the warning lists that one only.
C10_Witness ==
    /\ phase = "done" /\ stash # None /\ ~stash[1].skip_enabled
    /\ Len(stats.failed) = 2
    /\ Len(WouldSkipFailures) = 1
    /\ Len(ListedIds) = 1

RemovableVisited ==
    {p \in visited :
        /\ \E i \in 1..Len(native_items) : native_items[i].path = p
        /\ Resolve(p) \notin ChangedFileSet
        /\ Resolve(p) \in stash[1].handler.unaffected}

\* C12 as stated: exactly one of the two sets is populated per run; with
\* skip enabled would_skip_paths is empty and removed_test_paths records the
\* removals, with skip disabled removed_test_paths is empty and
\* would_skip_paths records the hypothetical removals.
C12_ExactlyOnePopulated ==
    stash # None =>
        IF stash[1].skip_enabled
        THEN /\ stash[1].would_skip_paths = {}
             /\ stash[1].handler.removed_test_paths = RemovableVisited
        ELSE /\ stash[1].handler.removed_test_paths = {}
             /\ stash[1].would_skip_paths = RemovableVisited

\* C12 amended: the two sets are populated together.  In every state with
\* the plugin state present, in either mode, removed_test_paths and
\* would_skip_paths both hold exactly the visited files that collected
\* something natively, are not changed files and are reported removable.
C12_BothPopulated ==
    stash # None =>
        /\ stash[1].handler.removed_test_paths = RemovableVisited
        /\ stash[1].would_skip_paths = RemovableVisited

\* C12 witness: skip enabled, all files visited, and two paths recorded in
\* both sets.
C12_Witness ==
    /\ stash # None /\ stash[1].skip_enabled
    /\ visited = Paths
    /\ Cardinality(stash[1].handler.removed_test_paths) = 2
    /\ stash[1].would_skip_paths = stash[1].handler.removed_test_paths

\* The estimates shown in the collection report.
ReportedEstimates ==
    {report_lines[i][4] : i \in {k \in 1..Len(report_lines) :
                                    report_lines[k][1] \in {"skipped", "unaffected"}}}

RemovableFileCollected ==
    /\ stash # None /\ stash[1].skip_enabled
    /\ last_collect.file_path # ""
    /\ last_collect.native # <<>>
    /\ Resolve(last_collect.file_path) \notin ChangedFileSet
    /\ Resolve(last_collect.file_path) \in stash[1].handler.unaffected

\* The items of the file of the last pytest_collect_file call that the
\* session holds.
ItemsOfLastFile == SelectSeq(items, LAMBDA item : item.path = last_collect.file_path)

\* C14 as stated: for such a file pytest_collect_file records the path and
\* returns an empty collection, so the file's items are not collected.
C14_DropsUnaffectedFile ==
    (RemovableFileCollected /\ phase = "collect") =>
        /\ last_collect.file_path \in stash[1].handler.removed_test_paths
        /\ last_collect.result = <<>>
        /\ ItemsOfLastFile = <<>>

\* C14 amended: for such a file pytest_collect_file records the path and
\* returns the native collection unchanged, so the file's items are
\* collected and are in the item list handed to pytest_collection_modifyitems.
C14_RecordsAndKeepsFile ==
    RemovableFileCollected =>
        /\ last_collect.file_path \in stash[1].handler.removed_test_paths
        /\ last_collect.result = last_collect.native
        /\ phase = "collect" => ItemsOfLastFile = GenItems(last_collect.file_path)
        /\ ItemsFiltered =>
              SelectSeq(collected, LAMBDA item : item.path = last_collect.file_path)
                  = GenItems(last_collect.file_path)

\* C14 witness: with skip enabled b_test.py, unchanged and removable, has
\* just been collected: its path is recorded and its item is in the list.
C14_Witness ==
    /\ RemovableFileCollected /\ phase = "collect"
    /\ last_collect.file_path = "b_test.py"
    /\ "b_test.py" \in stash[1].handler.removed_test_paths
    /\ ItemsOfLastFile # <<>>

\* The reports of the last run, of every category.
RunReports == UNION {Range(stats[c]) : c \in Categories}

\* C15: recording covers exactly the call phase.  After
\* _record_test_durations with a cache, the ledger maps the identifier of
\* every call-phase report of the run, of whatever category, to its observed
\* duration, and a test with no call-phase report has the entry it had
\* before, or none.
C15_CallPhaseRecorded ==
    cache.available =>
        \A r \in RunReports :
            IF r.when = "call"
            THEN /\ r.nodeid \in DOMAIN Stored(cache)
                 /\ Stored(cache)[r.nodeid] = r.duration
            ELSE (\A q \in RunReports : q.nodeid = r.nodeid => q.when # "call") =>
                     IF r.nodeid \in DOMAIN Stored(cache_before)
                     THEN /\ r.nodeid \in DOMAIN Stored(cache)
                          /\ Stored(cache)[r.nodeid] = Stored(cache_before)[r.nodeid]
                     ELSE r.nodeid \notin DOMAIN Stored(cache)

\* The positions of the ledger writes among the plugin's side effects.
LedgerWrites == {i \in 1..Len(effects) : effects[i] = "cache_set"}

\* The state part of C16: the ledger is written at most once, the write is
\* the last side effect of the plugin (so any warning line precedes it), and
\* before pytest_terminal_summary has run nothing was written and the cache
\* is as the session found it.
C16_WriteIsLast ==
    /\ Cardinality(LedgerWrites) = sets
    /\ sets <= 1
    /\ LedgerWrites \subseteq {Len(effects)}
    /\ phase # "done" => (sets = 0 /\ cache = cache_before)

\* C16: the duration-ledger write is the last action of a run.  The cache is
\* written at most once, only by pytest_terminal_summary, after every line
\* of the validation warning, and no side effect of the plugin follows it;
\* configure, collection, item filtering and reporting never write it, and
\* no hook runs after pytest_terminal_summary.
C16_LedgerWriteLast ==
    /\ []C16_WriteIsLast
    /\ [][(sets' # sets \/ cache' # cache) => (phase = "summary" /\ phase' = "done")]_vars
    /\ [][phase # "done"]_vars

\* C16 witness: a finished session in which the warning was written and then
\* the ledger, as the last of the side effects.
C16_Witness ==
    /\ phase = "done" /\ stash # None
    /\ written # <<>>
    /\ sets = 1
    /\ cache # cache_before
    /\ Len(effects) > 2
    /\ effects[Len(effects)] = "cache_set"
    /\ effects[Len(effects) - 1] = "write_line"

\* C17: num_removed_items is computed at item-filtering time in both modes.
\* With the state present, after pytest_collection_modifyitems it is the
\* number of items of the collected list the oracle reports removable,
\* whether skip_enabled is true or false; before the hook it is 0.
C17_RemovedItemCount ==
    stash # None =>
        stash[1].handler.num_removed_items =
            IF ItemsFiltered THEN Len(SelectSeq(collected, OracleRemoves)) ELSE 0

\* C17 witness: with skip disabled, pytest_collection_modifyitems has just
\* counted one removable item among two collected and removed none.
C17_Witness ==
    /\ phase = "report"
    /\ stash # None /\ ~stash[1].skip_enabled
    /\ Len(collected) = 2
    /\ stash[1].handler.num_removed_items = 1
    /\ items = collected

\* A git invocation ended with exit status 0 and without an exception.
Succeeded(r) == r.raised = FALSE /\ r.returncode = 0

\* C18: default-branch detection order.  If git symbolic-ref succeeds the
\* last path component of its output is returned; otherwise main if
\* rev-parse finds it, otherwise master if rev-parse finds it, otherwise
\* main; a git invocation that fails or raises counts as not found, and the
\* function returns a branch name in every case.
C18_DetectionOrder ==
    phase = "detected" =>
        /\ default_branch # None
        /\ default_branch[1] =
              IF Succeeded(git.symref)
              THEN git.symref.stdout[Len(git.symref.stdout)]
              ELSE IF Succeeded(git.verify["main"]) THEN "main"
              ELSE IF Succeeded(git.verify["master"]) THEN "master"
              ELSE "main"

\* C18 witness: symbolic-ref raised, main and master both exist locally, and
\* main was returned.
C18_Witness ==
    /\ phase = "detected"
    /\ git.symref = GitRaises
    /\ git.verify["main"] = GitOk(<<>>)
    /\ git.verify["master"] = GitOk(<<>>)
    /\ default_branch = <<"main">>

\* The last pytest_collect_file call was made with the state present for a
\* file whose native collection was empty.
EmptyNativeCollected ==
    /\ stash # None
    /\ last_collect.file_path # ""
    /\ last_collect.native = <<>>

\* The state part of C19: such a call returned the empty result, asked the
\* oracle nothing, and its path is in neither set.
C19_EmptyIsPassedThrough ==
    EmptyNativeCollected =>
        /\ last_collect.result = <<>>
        /\ last_collect.queried = <<>>
        /\ last_collect.file_path \notin RecordedPaths

\* C19: pass-through on empty native collection.  When native collection of
\* a file returns an empty result, pytest_collect_file returns it unchanged,
\* does not query the oracle and leaves the plugin state as it was, so
\* nothing is added to removed_test_paths or would_skip_paths, also when the
\* oracle would report the file removable.
C19_PassThroughOnEmpty ==
    /\ []C19_EmptyIsPassedThrough
    /\ [][(visited' # visited /\ last_collect'.native = <<>>) =>
              (stash' = stash /\ effects' = effects /\ items' = items)]_vars

\* C19 witness: b_test.py is unchanged and the oracle would report it
\* removable, but its native collection was empty: nothing was asked or
\* recorded.
C19_Witness ==
    /\ EmptyNativeCollected
    /\ last_collect.file_path = "b_test.py"
    /\ "b_test.py" \notin ChangedFileSet
    /\ "b_test.py" \in stash[1].handler.unaffected
    /\ last_collect.queried = <<>>
    /\ "b_test.py" \notin RecordedPaths
    /\ "a_test.py" \in RecordedPaths

\* The paths the report lists, in order, and its elision lines.
ListedPaths ==
    LET lines == SelectSeq(report_lines, LAMBDA l : l[1] = "path")
    IN  [i \in 1..Len(lines) |-> lines[i][3]]

ElisionLines == SelectSeq(report_lines, LAMBDA l : l[1] = "more")

\* All the recorded files are listed, each once, and nothing is elided.
AllListed ==
    /\ Len(ListedPaths) = Cardinality(stash[1].handler.removed_test_paths)
    /\ Range(ListedPaths) = stash[1].handler.removed_test_paths
    /\ ElisionLines = <<>>

\* max_shown of the recorded files are listed, each once, and the last line
\* of the report says how many more there are.
TruncatedListed ==
    /\ Len(ListedPaths) = max_shown
    /\ Cardinality(Range(ListedPaths)) = max_shown
    /\ Range(ListedPaths) \subseteq stash[1].handler.removed_test_paths
    /\ ElisionLines =
           <<<<"more", Cardinality(stash[1].handler.removed_test_paths) - max_shown>>>>
    /\ report_lines[Len(report_lines)][1] = "more"

\* pytest_report_collectionfinish has reported on a non-zero item count.
Reported ==
    /\ phase = "run"
    /\ stash # None
    /\ stash[1].handler.num_removed_items > 0

\* C20 as stated: whenever num_removed_items > 0 the report lists the
\* recorded files, all of them in verbose mode, and in non-verbose mode all
\* of them up to 5 and otherwise 5 followed by one "... and (n-5) more"
\* line, with skip enabled and with skip disabled alike.
C20_ListedInBothShapes ==
    Reported =>
        IF stash[1].verbose
               \/ Cardinality(stash[1].handler.removed_test_paths) <= max_shown
        THEN AllListed
        ELSE TruncatedListed

\* C20 amended: whenever num_removed_items > 0, the skip-enabled report
\* lists the recorded files as stated (all in verbose mode or up to 5 files,
\* otherwise 5 and one "... and (n-5) more" line); the skip-disabled report
\* lists all of them, without elision, in verbose mode and lists no path at
\* all in non-verbose mode.
C20_PathListing ==
    Reported =>
        IF stash[1].skip_enabled
        THEN IF stash[1].verbose
                    \/ Cardinality(stash[1].handler.removed_test_paths) <= max_shown
             THEN AllListed
             ELSE TruncatedListed
        ELSE IF stash[1].verbose
             THEN AllListed
             ELSE ListedPaths = <<>> /\ ElisionLines = <<>>

\* C20 witness: skip enabled, not verbose, seven files recorded: five are
\* listed and the last line announces two more.
C20_Witness ==
    /\ Reported
    /\ stash[1].skip_enabled /\ ~stash[1].verbose
    /\ Cardinality(stash[1].handler.removed_test_paths) = 7
    /\ Len(ListedPaths) = 5
    /\ report_lines[Len(report_lines)] = <<"more", 2>>

\* C21: file-level and item-level decisions agree.  After
\* pytest_collection_modifyitems, every item counted in num_removed_items
\* belongs to a file recorded in removed_test_paths and in would_skip_paths,
\* and so does every item handed to pytest_deselected.
C21_FileAndItemLevelAgree ==
    (ItemsFiltered /\ stash # None) =>
        /\ \A item \in Range(collected) :
               OracleRemoves(item) =>
                   /\ item.path \in stash[1].handler.removed_test_paths
                   /\ item.path \in stash[1].would_skip_paths
        /\ \A i \in 1..Len(deselected) : \A item \in Range(deselected[i]) :
               item.path \in stash[1].handler.removed_test_paths

====
